---- MODULE Spec2Model ----
(***************************************************************************)
(* Model of scrapy/core/downloader/middleware.py:                          *)
(* DownloaderMiddlewareManager._add_middleware and download_async with its *)
(* three nested chains process_request, process_response and               *)
(* process_exception, and the two telemetry signals                        *)
(* middleware_method_complete / middleware_chain_complete.                 *)
(*                                                                         *)
(* One download_async call is followed from registration to its outcome.   *)
(* What the middleware methods and download_func do is the environment's   *)
(* choice: every hook call and the fetch draw their behaviour from a small *)
(* set (return a value, raise an Exception, raise a BaseException).        *)
(* `trace` is a history variable: the hook calls, the fetch, the sleep and *)
(* the signals sent, in the order the code performs them.                  *)
(***************************************************************************)
EXTENDS Integers, Sequences, FiniteSets, TLC

\* number of middlewares handed to the manager
NumMw == 2

\* class names of the middlewares, in the order of the settings list
AllNames == <<"A", "B", "C", "D", "E">>

MwName(i) == AllNames[i]

PROCESS_REQUEST == "process_request"

PROCESS_RESPONSE == "process_response"

PROCESS_EXCEPTION == "process_exception"

MethodNames == {PROCESS_REQUEST, PROCESS_RESPONSE, PROCESS_EXCEPTION}

\* ---- values -------------------------------------------------------------
None == "None"

\* the Request handed to download_async
Req0 == "Req0"

Requests == {Req0, "Req1"}

Responses == {"Resp1", "Resp2"}

\* a value that is neither None, a Response nor a Request (an int, a str...)
Other == "Int"

IsResponse(v) == v \in Responses

IsRequest(v) == v \in Requests

\* a truth test that lets only a Request end the chain
Truthy_request_only(v) == v \in Requests

\* `if response:` on a value that passed validation: None is the falsy one
Truthy(v) == v # None

\* ---- errors -------------------------------------------------------------
Err(c, m, k) == [cls |-> c, mw |-> m, meth |-> k]

NoErr == Err("None", "-", "-")

\* _InvalidOutput carries method.__qualname__, i.e. the class and the method
InvalidOutput(m, k) == Err("_InvalidOutput", m, k)

\* TypeError("Received None in process_response")
ReceivedNone == Err("TypeError", "-", PROCESS_RESPONSE)

\* an except clause that lets _InvalidOutput through
IsException_not_invalid_output(e) == e.cls \in {"Exception", "TypeError"}

\* `except BaseException` around process_request: everything is caught
IsException_everything(e) == TRUE

\* classes caught by `except Exception`; CancelledError, KeyboardInterrupt
\* and the like are BaseException only
IsException(e) == e.cls \in {"Exception", "_InvalidOutput", "TypeError"}

RaiseClasses == {"Exception", "BaseException"}

\* ---- what a call does ---------------------------------------------------
Returns(v) == [raised |-> FALSE, val |-> v, err |-> NoErr]

Raises(e) == [raised |-> TRUE, val |-> "-", err |-> e]

Nothing == [raised |-> FALSE, val |-> "-", err |-> NoErr]

\* behaviours of a middleware method: it returns None, a Response (for
\* process_response the one it was given, or another), a Request or
\* something else, or it raises
HookBehaviours(m, k, input) ==
    { Returns(v) : v \in {None, "Req1", Other}
                        \cup (IF k = PROCESS_RESPONSE THEN {input, "Resp2"}
                              ELSE {"Resp1"}) }
      \cup { Raises(Err(c, m, k)) : c \in RaiseClasses }

\* behaviours of download_func
FetchBehaviours ==
    { Returns(v) : v \in {None, "Resp1", "Req1"} }
      \cup { Raises(Err(c, "download_func", "-")) : c \in RaiseClasses }

\* ---- trace events -------------------------------------------------------
\* req/arg/exc: what was passed in; ret/err: what came back or was raised
Ev(e, k, m, q, a, ax, r, x, ns) ==
    [ev |-> e, meth |-> k, mw |-> m, req |-> q, arg |-> a, exc |-> ax,
     ret |-> r, err |-> x, names |-> ns, count |-> Len(ns)]

\* `request`: the parameter of download_async, which its three closures
\* read and nothing assigns
request == Req0

\* middleware method k of m was called with (request, a, ax) and did b
CallEv(k, m, a, ax, b) ==
    Ev("call", k, m, request, a, ax, b.val, b.err, <<>>)

\* download_func(request) was called and did b
FetchEv(b) ==
    Ev("download_func", "-", "-", request, "-", NoErr, b.val, b.err, <<>>)

\* _defer_sleep_async()
SleepEv == Ev("sleep", "-", "-", "-", "-", NoErr, "-", NoErr, <<>>)

\* the nested function k was called with a (and exception ax)
EnterEv(k, a, ax) == Ev("enter", k, "-", "-", a, ax, "-", NoErr, <<>>)

\* chain_start_time was taken: the chain's try block is entered
ChainStartEv(k) ==
    Ev("chain_start", k, "-", "-", "-", NoErr, "-", NoErr, <<>>)

\* signals.middleware_method_complete
MethodCompleteEv(k, m, x) ==
    Ev("method_complete", k, m, "-", "-", NoErr, "-", x, <<>>)

\* signals.middleware_chain_complete: obj, middlewares_executed,
\* middleware_count, error
ChainCompleteEv(k, obj, ns, x) ==
    Ev("chain_complete", k, "-", "-", obj, NoErr, "-", x, ns)

VARIABLES
    mwlist,                \* the middlewares to register: name and methods
    nadded,                \* how many of them _add_middleware has seen
    methods,               \* self.methods: three deques of bound methods
    crawler,               \* self.crawler is set
    pc,                    \* position of the download_async call
    idx,                   \* position of the running chain's for loop
    response,              \* local `response` of the running chain
    middlewares_executed,  \* local list of the running chain
    chain_error,           \* local chain_error of the running chain
    pending,               \* return value or exception leaving the chain
    exception,             \* `ex` caught by download_async
    result,                \* `result` of download_async
    outcome,               \* how download_async ended
    trace,
    suspended              \* the frame of a second call, not running now

vars == <<mwlist, nadded, methods, crawler, pc, idx, response,
          middlewares_executed, chain_error, pending, exception, result,
          outcome, trace, suspended>>

registry == <<mwlist, nadded, methods, crawler>>

Running == [status |-> "running", val |-> "-", err |-> NoErr]

Returned(v) == [status |-> "returned", val |-> v, err |-> NoErr]

Raised(e) == [status |-> "raised", val |-> "-", err |-> e]

\* the locals of a download_async call that has not started
NewFrame ==
    [pc |-> "init", idx |-> 0, response |-> "-",
     middlewares_executed |-> <<>>, chain_error |-> NoErr,
     pending |-> Nothing, exception |-> NoErr, result |-> "-",
     outcome |-> Running, trace |-> <<>>]

\* a manager that is still to register its middlewares, and two calls of
\* download_async that have not started
InitCalls ==
    /\ nadded = 0
    /\ methods = [k \in MethodNames |-> <<>>]
    \* the downloader builds its manager with from_crawler(crawler)
    /\ crawler = TRUE
    /\ pc = "init"
    /\ idx = 0
    /\ response = "-"
    /\ middlewares_executed = <<>>
    /\ chain_error = NoErr
    /\ pending = Nothing
    /\ exception = NoErr
    /\ result = "-"
    /\ outcome = Running
    /\ trace = <<>>
    /\ suspended = NewFrame

Init ==
    /\ mwlist \in [1..NumMw -> SUBSET MethodNames]
    /\ InitCalls

\* ---- registration -------------------------------------------------------
\* deque.append where the code has deque.appendleft
appendleft_as_append(s, x) == Append(s, x)

\* deque.appendleft
appendleft(s, x) == <<x>> \o s

\* methods after _add_middleware(mw), mw being the i-th middleware
AddedMethods(ms, i) ==
    [k \in MethodNames |->
        IF k \notin mwlist[i] THEN ms[k]
        ELSE IF k = PROCESS_REQUEST THEN Append(ms[k], MwName(i))
        ELSE appendleft(ms[k], MwName(i))]

_add_middleware ==
    /\ pc = "init"
    /\ nadded < NumMw
    /\ nadded' = nadded + 1
    /\ methods' = AddedMethods(methods, nadded + 1)
    /\ UNCHANGED <<mwlist, crawler, pc, idx, response, middlewares_executed,
                   chain_error, pending, exception, result, outcome, trace,
                   suspended>>

\* ---- telemetry ----------------------------------------------------------
\* the signal sent after the try block instead of in its finally: an exit
\* by exception sends nothing
send_catch_log_not_in_finally(tr, e) ==
    IF crawler /\ e.err = NoErr THEN Append(tr, e) ELSE tr

\* `if self.crawler: self.crawler.signals.send_catch_log(...)`
send_catch_log(tr, e) == IF crawler THEN Append(tr, e) ELSE tr

\* ---- entering a chain ---------------------------------------------------
\* one middlewares_executed list for the whole download_async call: a chain
\* goes on appending to the list of the chain before it
EnterChain_one_list(k, resp) ==
    /\ idx' = 1
    /\ response' = resp
    /\ middlewares_executed' = middlewares_executed
    /\ chain_error' = NoErr
    /\ pending' = Nothing

\* chain_start_time, middlewares_executed = [], chain_error = None
EnterChain(k, resp) ==
    /\ idx' = 1
    /\ response' = resp
    /\ middlewares_executed' = <<>>
    /\ chain_error' = NoErr
    /\ pending' = Nothing

\* isinstance(response, Response) alone in process_request and
\* process_exception: a returned Request is rejected
ValidReturn_no_request(k, v) ==
    IF k = PROCESS_RESPONSE
    THEN IsResponse(v) \/ IsRequest(v)
    ELSE v = None \/ IsResponse(v)

\* the check of process_request copied to process_response: None allowed
ValidReturn_none_allowed(k, v) == v = None \/ IsResponse(v) \/ IsRequest(v)

\* the isinstance checks on what a middleware method returned
ValidReturn(k, v) ==
    IF k = PROCESS_RESPONSE
    THEN IsResponse(v) \/ IsRequest(v)
    ELSE v = None \/ IsResponse(v) \/ IsRequest(v)

\* method_error of the inner try: what the method raised, or _InvalidOutput
MethodError(k, m, b) ==
    IF b.raised THEN b.err
    ELSE IF ~ValidReturn(k, b.val) THEN InvalidOutput(m, k)
    ELSE NoErr

\* `except Exception` in the inner try: method_error stays None when the
\* method raises a BaseException that is not an Exception
CallAndSignal_except_exception(tr, k, m, a, ax, b) ==
    send_catch_log(Append(tr, CallEv(k, m, a, ax, b)),
                   MethodCompleteEv(k, m,
                       IF IsException(MethodError(k, m, b))
                       THEN MethodError(k, m, b) ELSE NoErr))

\* the method_complete signal sent only when the method itself did not
\* raise: an _InvalidOutput raised by the check is signalled, a raise of
\* the method is not
CallAndSignal_skip_raise(tr, k, m, a, ax, b) ==
    IF b.raised THEN Append(tr, CallEv(k, m, a, ax, b))
    ELSE send_catch_log(Append(tr, CallEv(k, m, a, ax, b)),
                        MethodCompleteEv(k, m, MethodError(k, m, b)))

\* the inner try/finally: the call, then the method_complete signal
CallAndSignal(tr, k, m, a, ax, b) ==
    send_catch_log(Append(tr, CallEv(k, m, a, ax, b)),
                   MethodCompleteEv(k, m, MethodError(k, m, b)))

\* ---- download_async: try: result = await process_request(request) -------
download_async ==
    /\ pc = "init"
    /\ nadded = NumMw
    /\ pc' = "process_request"
    /\ EnterChain(PROCESS_REQUEST, "-")
    /\ trace' = trace \o <<EnterEv(PROCESS_REQUEST, request, NoErr),
                            ChainStartEv(PROCESS_REQUEST)>>
    /\ UNCHANGED <<registry, suspended, exception, result, outcome>>

\* ---- process_request ---------------------------------------------------
\* one iteration of `for method in self.methods["process_request"]`
process_request_method ==
    /\ pc = "process_request"
    /\ idx <= Len(methods[PROCESS_REQUEST])
    /\ LET m == methods[PROCESS_REQUEST][idx] IN
       \E b \in HookBehaviours(m, PROCESS_REQUEST, "-") :
         LET merr == MethodError(PROCESS_REQUEST, m, b) IN
           /\ middlewares_executed' = Append(middlewares_executed, m)
           /\ response' = IF b.raised THEN response ELSE b.val
           /\ trace' = CallAndSignal(trace, PROCESS_REQUEST, m, "-", NoErr, b)
           /\ IF merr # NoErr
              THEN /\ chain_error' = merr
                   /\ pending' = Raises(merr)
                   /\ pc' = "process_request_finally"
                   /\ idx' = idx
              ELSE IF Truthy(b.val)
              THEN /\ pending' = Returns(b.val)
                   /\ pc' = "process_request_finally"
                   /\ UNCHANGED <<chain_error, idx>>
              ELSE /\ idx' = idx + 1
                   /\ UNCHANGED <<chain_error, pending, pc>>
    /\ UNCHANGED <<registry, suspended, exception, result, outcome>>

\* download_func awaited after the chain's try block: its exception does
\* not reach `except BaseException as ex: chain_error = ex`
process_request_download_outside_try ==
    /\ pc = "process_request"
    /\ idx > Len(methods[PROCESS_REQUEST])
    /\ \E b \in FetchBehaviours :
         /\ trace' = Append(trace, FetchEv(b))
         /\ pending' = b
    /\ pc' = "process_request_finally"
    /\ UNCHANGED <<registry, suspended, idx, response, middlewares_executed, exception,
                   result, outcome, chain_error>>

\* `return await download_func(request)` after the loop
process_request_download ==
    /\ pc = "process_request"
    /\ idx > Len(methods[PROCESS_REQUEST])
    /\ \E b \in FetchBehaviours :
         /\ trace' = Append(trace, FetchEv(b))
         /\ pending' = b
         /\ chain_error' = IF b.raised THEN b.err ELSE chain_error
    /\ pc' = "process_request_finally"
    /\ UNCHANGED <<registry, suspended, idx, response, middlewares_executed, exception,
                   result, outcome>>

\* the chain's finally, then download_async's try/except around the call
process_request_finally ==
    /\ pc = "process_request_finally"
    /\ trace' = send_catch_log(trace,
                   ChainCompleteEv(PROCESS_REQUEST, request,
                                   middlewares_executed, chain_error))
    /\ IF ~pending.raised
       THEN /\ result' = pending.val
            /\ pc' = "call_process_response"
            /\ UNCHANGED <<exception, outcome>>
       ELSE IF IsException(pending.err)
       THEN /\ exception' = pending.err
            /\ pc' = "sleep"
            /\ UNCHANGED <<result, outcome>>
       ELSE /\ outcome' = Raised(pending.err)
            /\ pc' = "done"
            /\ UNCHANGED <<exception, result>>
    /\ UNCHANGED <<registry, suspended, idx, response, middlewares_executed,
                   chain_error, pending>>

\* ---- except Exception as ex: await _defer_sleep_async() ----------------
\* a sleep whose Deferred is never fired: the await does not return
_defer_sleep_async_never_fired ==
    /\ pc = "sleep"
    /\ UNCHANGED vars

_defer_sleep_async ==
    /\ pc = "sleep"
    /\ pc' = "process_exception"
    /\ EnterChain(PROCESS_EXCEPTION, "-")
    /\ trace' = trace \o <<SleepEv,
                            EnterEv(PROCESS_EXCEPTION, "-", exception),
                            ChainStartEv(PROCESS_EXCEPTION)>>
    /\ UNCHANGED <<registry, suspended, exception, result, outcome>>

\* ---- process_exception -------------------------------------------------
process_exception_method ==
    /\ pc = "process_exception"
    /\ idx <= Len(methods[PROCESS_EXCEPTION])
    /\ LET m == methods[PROCESS_EXCEPTION][idx] IN
       \E b \in HookBehaviours(m, PROCESS_EXCEPTION, "-") :
         LET merr == MethodError(PROCESS_EXCEPTION, m, b) IN
           /\ middlewares_executed' = Append(middlewares_executed, m)
           /\ response' = IF b.raised THEN response ELSE b.val
           /\ trace' = CallAndSignal(trace, PROCESS_EXCEPTION, m, "-",
                                     exception, b)
           /\ IF merr # NoErr
              THEN /\ chain_error' = merr
                   /\ pending' = Raises(merr)
                   /\ pc' = "process_exception_finally"
                   /\ idx' = idx
              ELSE IF Truthy(b.val)
              THEN /\ pending' = Returns(b.val)
                   /\ pc' = "process_exception_finally"
                   /\ UNCHANGED <<chain_error, idx>>
              ELSE /\ idx' = idx + 1
                   /\ UNCHANGED <<chain_error, pending, pc>>
    /\ UNCHANGED <<registry, suspended, exception, result, outcome>>

\* `raise exception` placed after the try block: chain_error stays None
process_exception_reraise_outside_try ==
    /\ pc = "process_exception"
    /\ idx > Len(methods[PROCESS_EXCEPTION])
    /\ pending' = Raises(exception)
    /\ pc' = "process_exception_finally"
    /\ UNCHANGED <<registry, suspended, idx, response, middlewares_executed,
                   chain_error, exception, result, outcome, trace>>

\* process_exception without its final raise: it returns None
process_exception_falls_through ==
    /\ pc = "process_exception"
    /\ idx > Len(methods[PROCESS_EXCEPTION])
    /\ pending' = Returns(None)
    /\ pc' = "process_exception_finally"
    /\ UNCHANGED <<registry, suspended, idx, response, middlewares_executed, chain_error,
                   exception, result, outcome, trace>>

\* `raise exception` after the loop
process_exception_reraise ==
    /\ pc = "process_exception"
    /\ idx > Len(methods[PROCESS_EXCEPTION])
    /\ chain_error' = exception
    /\ pending' = Raises(exception)
    /\ pc' = "process_exception_finally"
    /\ UNCHANGED <<registry, suspended, idx, response, middlewares_executed, exception,
                   result, outcome, trace>>

\* the chain's finally, then `result = await process_exception(ex)`
process_exception_finally ==
    /\ pc = "process_exception_finally"
    /\ trace' = send_catch_log(trace,
                   ChainCompleteEv(PROCESS_EXCEPTION, request,
                                   middlewares_executed, chain_error))
    /\ IF ~pending.raised
       THEN /\ result' = pending.val
            /\ pc' = "call_process_response"
            /\ UNCHANGED outcome
       ELSE /\ outcome' = Raised(pending.err)
            /\ pc' = "done"
            /\ UNCHANGED result
    /\ UNCHANGED <<registry, suspended, idx, response, middlewares_executed,
                   chain_error, pending, exception>>

\* ---- return await process_response(result) -----------------------------
\* process_response handing None back like a Request instead of raising
EarlyExit_none_returned(r) ==
    IF r = None \/ IsRequest(r) THEN "return" ELSE "chain"

\* process_response without its `response is None` test
EarlyExit_no_none_test(r) == IF IsRequest(r) THEN "return" ELSE "chain"

\* process_response without its isinstance(response, Request) test
EarlyExit_no_bypass(r) == IF r = None THEN "raise" ELSE "chain"

\* the two tests at the top of process_response, before the chain's try
EarlyExit(r) ==
    IF r = None THEN "raise"
    ELSE IF IsRequest(r) THEN "return"
    ELSE "chain"

\* the two early exits of process_response, or its chain is entered
process_response_enter ==
    /\ pc = "call_process_response"
    /\ IF EarlyExit(result) = "raise"
       THEN /\ outcome' = Raised(ReceivedNone)
            /\ pc' = "done"
            /\ trace' = Append(trace, EnterEv(PROCESS_RESPONSE, result, NoErr))
            /\ UNCHANGED <<idx, response, middlewares_executed, chain_error,
                           pending>>
       ELSE IF EarlyExit(result) = "return"
       THEN /\ outcome' = Returned(result)
            /\ pc' = "done"
            /\ trace' = Append(trace, EnterEv(PROCESS_RESPONSE, result, NoErr))
            /\ UNCHANGED <<idx, response, middlewares_executed, chain_error,
                           pending>>
       ELSE /\ pc' = "process_response"
            /\ EnterChain(PROCESS_RESPONSE, result)
            /\ trace' = trace \o <<EnterEv(PROCESS_RESPONSE, result, NoErr),
                                    ChainStartEv(PROCESS_RESPONSE)>>
            /\ UNCHANGED outcome
    /\ UNCHANGED <<registry, suspended, exception, result>>

\* the Response a method returns is not kept: the next method and the
\* caller get the Response the chain was entered with
process_response_method_result_dropped ==
    /\ pc = "process_response"
    /\ idx <= Len(methods[PROCESS_RESPONSE])
    /\ LET m == methods[PROCESS_RESPONSE][idx] IN
       \E b \in HookBehaviours(m, PROCESS_RESPONSE, response) :
         LET merr == MethodError(PROCESS_RESPONSE, m, b) IN
           /\ middlewares_executed' = Append(middlewares_executed, m)
           /\ response' = IF IsRequest(b.val) THEN b.val ELSE response
           /\ trace' = CallAndSignal(trace, PROCESS_RESPONSE, m, response,
                                     NoErr, b)
           /\ IF merr # NoErr
              THEN /\ chain_error' = merr
                   /\ pending' = Raises(merr)
                   /\ pc' = "process_response_finally"
                   /\ idx' = idx
              ELSE IF IsRequest(b.val)
              THEN /\ pending' = Returns(b.val)
                   /\ pc' = "process_response_finally"
                   /\ UNCHANGED <<chain_error, idx>>
              ELSE /\ idx' = idx + 1
                   /\ UNCHANGED <<chain_error, pending, pc>>
    /\ UNCHANGED <<registry, suspended, exception, result, outcome>>

\* one iteration of `for method in self.methods["process_response"]`
process_response_method ==
    /\ pc = "process_response"
    /\ idx <= Len(methods[PROCESS_RESPONSE])
    /\ LET m == methods[PROCESS_RESPONSE][idx] IN
       \E b \in HookBehaviours(m, PROCESS_RESPONSE, response) :
         LET merr == MethodError(PROCESS_RESPONSE, m, b) IN
           /\ middlewares_executed' = Append(middlewares_executed, m)
           /\ response' = IF b.raised THEN response ELSE b.val
           /\ trace' = CallAndSignal(trace, PROCESS_RESPONSE, m, response,
                                     NoErr, b)
           /\ IF merr # NoErr
              THEN /\ chain_error' = merr
                   /\ pending' = Raises(merr)
                   /\ pc' = "process_response_finally"
                   /\ idx' = idx
              ELSE IF IsRequest(b.val)
              THEN /\ pending' = Returns(b.val)
                   /\ pc' = "process_response_finally"
                   /\ UNCHANGED <<chain_error, idx>>
              ELSE /\ idx' = idx + 1
                   /\ UNCHANGED <<chain_error, pending, pc>>
    /\ UNCHANGED <<registry, suspended, exception, result, outcome>>

\* `return response` after the loop
process_response_return ==
    /\ pc = "process_response"
    /\ idx > Len(methods[PROCESS_RESPONSE])
    /\ pending' = Returns(response)
    /\ pc' = "process_response_finally"
    /\ UNCHANGED <<registry, suspended, idx, response, middlewares_executed,
                   chain_error, exception, result, outcome, trace>>

\* process_response called inside download_async's try: an Exception it
\* raises is recovered like one of process_request
process_response_finally_recovered ==
    /\ pc = "process_response_finally"
    /\ trace' = send_catch_log(trace,
                   ChainCompleteEv(PROCESS_RESPONSE, response,
                                   middlewares_executed, chain_error))
    /\ IF pending.raised /\ IsException(pending.err)
       THEN /\ exception' = pending.err
            /\ pc' = "sleep"
            /\ UNCHANGED outcome
       ELSE /\ outcome' = IF pending.raised THEN Raised(pending.err)
                          ELSE Returned(pending.val)
            /\ pc' = "done"
            /\ UNCHANGED exception
    /\ UNCHANGED <<registry, suspended, idx, response, middlewares_executed,
                   chain_error, pending, result>>

\* the chain's finally; what leaves process_response leaves download_async
process_response_finally ==
    /\ pc = "process_response_finally"
    /\ trace' = send_catch_log(trace,
                   ChainCompleteEv(PROCESS_RESPONSE, response,
                                   middlewares_executed, chain_error))
    /\ outcome' = IF pending.raised THEN Raised(pending.err)
                  ELSE Returned(pending.val)
    /\ pc' = "done"
    /\ UNCHANGED <<registry, suspended, idx, response, middlewares_executed,
                   chain_error, pending, exception, result>>

Next ==
    \/ _add_middleware
    \/ download_async
    \/ process_request_method
    \/ process_request_download
    \/ process_request_finally
    \/ _defer_sleep_async
    \/ process_exception_method
    \/ process_exception_reraise
    \/ process_exception_finally
    \/ process_response_enter
    \/ process_response_method
    \/ process_response_return
    \/ process_response_finally

Spec == Init /\ [][Next]_vars

\* every await of a call returns: the methods, download_func and the sleep
\* terminate and the event loop goes on running the call
SpecFair == Init /\ [][Next]_vars /\ WF_vars(Next)

\* ---- two calls in flight ------------------------------------------------
\* the locals of the running call
Frame ==
    [pc |-> pc, idx |-> idx, response |-> response,
     middlewares_executed |-> middlewares_executed,
     chain_error |-> chain_error, pending |-> pending,
     exception |-> exception, result |-> result, outcome |-> outcome,
     trace |-> trace]

\* the call is at an await: of a middleware method, of download_func or of
\* _defer_sleep_async
AtAwait(f) ==
    \/ f.pc = "process_request"
    \/ f.pc = "sleep"
    \/ f.pc = "process_exception" /\ f.idx <= Len(methods[PROCESS_EXCEPTION])
    \/ f.pc = "process_response" /\ f.idx <= Len(methods[PROCESS_RESPONSE])

\* middlewares_executed kept on the manager instead of in the closure: the
\* two calls append to one list
switch_shared_list ==
    /\ nadded = NumMw
    /\ AtAwait(Frame) \/ pc \in {"init", "done"}
    /\ suspended.pc # "done"
    /\ suspended' = Frame
    /\ pc' = suspended.pc
    /\ idx' = suspended.idx
    /\ response' = suspended.response
    /\ chain_error' = suspended.chain_error
    /\ pending' = suspended.pending
    /\ exception' = suspended.exception
    /\ result' = suspended.result
    /\ outcome' = suspended.outcome
    /\ trace' = suspended.trace
    /\ UNCHANGED <<registry, middlewares_executed>>

\* the event loop leaves the running call at its await (or before it has
\* started, or when it is over) and runs the other one; the locals of a
\* call are those of its own download_async closure
switch ==
    /\ nadded = NumMw
    /\ AtAwait(Frame) \/ pc \in {"init", "done"}
    /\ suspended.pc # "done"
    /\ suspended' = Frame
    /\ pc' = suspended.pc
    /\ idx' = suspended.idx
    /\ response' = suspended.response
    /\ middlewares_executed' = suspended.middlewares_executed
    /\ chain_error' = suspended.chain_error
    /\ pending' = suspended.pending
    /\ exception' = suspended.exception
    /\ result' = suspended.result
    /\ outcome' = suspended.outcome
    /\ trace' = suspended.trace
    /\ UNCHANGED registry

\* the middlewares of the manager the two calls share
SharedMwlist ==
    [i \in 1..NumMw |->
        IF i = 1 THEN {PROCESS_REQUEST, PROCESS_RESPONSE}
        ELSE IF i = 2 THEN {PROCESS_REQUEST, PROCESS_EXCEPTION}
        ELSE {}]

InitShared ==
    /\ mwlist = SharedMwlist
    /\ InitCalls

NextShared ==
    \/ Next
    \/ switch

SpecShared == InitShared /\ [][NextShared]_vars

\* ---- reading the trace --------------------------------------------------
Positions == 1..Len(trace)

IsEv(i, e, k) == trace[i].ev = e /\ trace[i].meth = k

EvPositions(e, k) == {i \in Positions : IsEv(i, e, k)}

Count(e, k) == Cardinality(EvPositions(e, k))

\* the calls of kind k, in the order they were made
Calls(k) == SelectSeq(trace, LAMBDA e : e.ev = "call" /\ e.meth = k)

CallNames(k) == [i \in 1..Len(Calls(k)) |-> Calls(k)[i].mw]

Fetched == \E i \in Positions : trace[i].ev = "download_func"

Reverse(s) == [i \in 1..Len(s) |-> s[Len(s) + 1 - i]]

IsPrefix(s, t) == Len(s) <= Len(t) /\ \A i \in 1..Len(s) : s[i] = t[i]

\* the middlewares that define method k, in registration order
RECURSIVE Defining(_, _)
Defining(k, n) ==
    IF n = 0 THEN <<>>
    ELSE IF k \in mwlist[n] THEN Append(Defining(k, n - 1), MwName(n))
    ELSE Defining(k, n - 1)

\* the call let the chain go on to its next method
Passed(e) ==
    /\ e.err = NoErr
    /\ IF e.meth = PROCESS_RESPONSE THEN e.ret \in Responses ELSE e.ret = None

AllPassed(k) == \A i \in EvPositions("call", k) : Passed(trace[i])

\* the chain of kind k has left its loop
ChainOver(k) ==
    CASE k = PROCESS_REQUEST -> pc \notin {"init", "process_request"}
      [] k = PROCESS_EXCEPTION ->
            pc \in {"process_exception_finally", "call_process_response",
                    "process_response", "process_response_finally", "done"}
            /\ Count("enter", PROCESS_EXCEPTION) > 0
      [] OTHER -> pc \in {"process_response_finally", "done"}
                  /\ Count("chain_start", PROCESS_RESPONSE) > 0

ExpectedOrder(k) ==
    IF k = PROCESS_REQUEST THEN Defining(k, NumMw)
    ELSE Reverse(Defining(k, NumMw))

\* process_response was run on v: entered with it, its chain started, and
\* its first method, if there is one, called with it
RanProcessResponseOn(v, after) ==
    /\ \E j \in EvPositions("enter", PROCESS_RESPONSE) :
          j > after /\ trace[j].arg = v
    /\ Count("chain_start", PROCESS_RESPONSE) = 1
    /\ methods[PROCESS_RESPONSE] # <<>> =>
          /\ Calls(PROCESS_RESPONSE) # <<>>
          /\ Calls(PROCESS_RESPONSE)[1].arg = v
          /\ Calls(PROCESS_RESPONSE)[1].mw = methods[PROCESS_RESPONSE][1]

\* C1: in a chain where no method short-circuits or raises, the
\* process_request methods are called in registration order and the
\* process_response and process_exception methods in reverse registration
\* order; middlewares lacking the method are skipped, the order of the
\* others is kept.
C1_Ordering ==
    \A k \in MethodNames :
        AllPassed(k) =>
            /\ IsPrefix(CallNames(k), ExpectedOrder(k))
            /\ ChainOver(k) => CallNames(k) = ExpectedOrder(k)

C1_Witness ==
    /\ pc = "done"
    /\ AllPassed(PROCESS_REQUEST) /\ AllPassed(PROCESS_RESPONSE)
    /\ CallNames(PROCESS_REQUEST) = <<"A", "B">>
    /\ CallNames(PROCESS_RESPONSE) = <<"B", "A">>

\* the exception chain's half of C1, reached in another run
C1_WitnessException ==
    /\ pc = "done"
    /\ AllPassed(PROCESS_EXCEPTION)
    /\ CallNames(PROCESS_EXCEPTION) = <<"B", "A">>

\* C2: when a process_request method returns a Response, download_func and
\* the process_request methods after it are never called, and
\* process_response is run on that Response: its first method is called
\* with it.
C2_ShortCircuit ==
    \A i \in EvPositions("call", PROCESS_REQUEST) :
        (trace[i].err = NoErr /\ trace[i].ret \in Responses) =>
            /\ ~Fetched
            /\ \A j \in EvPositions("call", PROCESS_REQUEST) : j <= i
            /\ Count("enter", PROCESS_EXCEPTION) = 0
            /\ pc = "done" => RanProcessResponseOn(trace[i].ret, i)

C2_Witness ==
    /\ pc = "done"
    /\ Len(methods[PROCESS_REQUEST]) = 2
    /\ Len(Calls(PROCESS_REQUEST)) = 1
    /\ Calls(PROCESS_REQUEST)[1].ret \in Responses
    /\ Len(Calls(PROCESS_RESPONSE)) = 2

\* C3: when process_response is handed a Request, it returns that Request
\* unchanged, no process_response method is called, and the Request is the
\* result of download_async.
C3_BypassOnRequest ==
    \A i \in EvPositions("enter", PROCESS_RESPONSE) :
        trace[i].arg \in Requests =>
            /\ Count("call", PROCESS_RESPONSE) = 0
            /\ Count("chain_start", PROCESS_RESPONSE) = 0
            /\ pc = "done"
            /\ outcome = Returned(trace[i].arg)

C3_Witness ==
    /\ pc = "done"
    /\ Len(methods[PROCESS_RESPONSE]) >= 2
    /\ \E i \in EvPositions("call", PROCESS_REQUEST) : trace[i].ret = "Req1"
    /\ \E i \in EvPositions("enter", PROCESS_RESPONSE) : trace[i].arg = "Req1"
    /\ outcome = Returned("Req1")

\* the Request may also come from a process_exception method
C3_WitnessException ==
    /\ pc = "done"
    /\ Len(methods[PROCESS_RESPONSE]) >= 2
    /\ \E i \in EvPositions("call", PROCESS_EXCEPTION) : trace[i].ret = "Req1"
    /\ \E i \in EvPositions("enter", PROCESS_RESPONSE) : trace[i].arg = "Req1"
    /\ outcome = Returned("Req1")

\* positions where download_func or a process_request method raised
RequestChainRaises ==
    {i \in Positions :
        /\ trace[i].ev = "download_func" \/ IsEv(i, "call", PROCESS_REQUEST)
        /\ trace[i].err # NoErr}

\* C4: when download_func or a process_request method raises: if a
\* process_exception method returns a Response, process_response is run on
\* that Response; if every process_exception method returns None, or there
\* is none, download_async raises that same error and no process_response
\* method is called.
C4_ExceptionRecovery ==
    \A i \in RequestChainRaises :
        /\ \A j \in EvPositions("call", PROCESS_EXCEPTION) :
              (trace[j].err = NoErr /\ trace[j].ret \in Responses /\ pc = "done")
                  => RanProcessResponseOn(trace[j].ret, j)
        /\ ( /\ pc = "done"
             /\ \A j \in EvPositions("call", PROCESS_EXCEPTION) :
                   trace[j].err = NoErr /\ trace[j].ret = None )
           => /\ outcome = Raised(trace[i].err)
              /\ Count("call", PROCESS_RESPONSE) = 0
              /\ Count("enter", PROCESS_RESPONSE) = 0

C4_Witness ==
    /\ pc = "done"
    /\ \E i \in RequestChainRaises : trace[i].ev = "download_func"
    /\ Len(Calls(PROCESS_EXCEPTION)) >= 2
    /\ \A j \in EvPositions("call", PROCESS_EXCEPTION) :
          trace[j].err = NoErr /\ trace[j].ret = None
    /\ Len(methods[PROCESS_RESPONSE]) >= 1
    /\ outcome.status = "raised"

\* the recovering half of C4
C4_WitnessRecovered ==
    /\ pc = "done"
    /\ \E i \in RequestChainRaises : trace[i].ev = "download_func"
    /\ \E j \in EvPositions("call", PROCESS_EXCEPTION) :
          trace[j].ret \in Responses /\ trace[j].mw = "B"
    /\ Len(Calls(PROCESS_RESPONSE)) >= 1
    /\ outcome.status = "returned"

\* C5: when a process_response method returns neither a Response nor a
\* Request, the chain fails with the _InvalidOutput naming that method, no
\* later process_response method is called, and the chain_complete signal
\* of the response chain is sent once, carrying that error.
C5_ResponseTypeValidation ==
    \A i \in EvPositions("call", PROCESS_RESPONSE) :
        (trace[i].err = NoErr /\ trace[i].ret \notin Responses \cup Requests) =>
            LET e == InvalidOutput(trace[i].mw, PROCESS_RESPONSE) IN
              /\ \A j \in EvPositions("call", PROCESS_RESPONSE) : j <= i
              /\ pc \in {"process_response_finally", "done"}
              /\ pc = "process_response_finally" => pending = Raises(e)
              /\ pc = "done" =>
                    /\ outcome = Raised(e)
                    /\ Count("chain_complete", PROCESS_RESPONSE) = 1
                    /\ \A j \in EvPositions("chain_complete", PROCESS_RESPONSE) :
                          j > i /\ trace[j].err = e

C5_Witness ==
    /\ pc = "done"
    /\ Len(methods[PROCESS_RESPONSE]) = 2
    /\ Len(Calls(PROCESS_RESPONSE)) = 1
    /\ Calls(PROCESS_RESPONSE)[1].ret = Other
    /\ Calls(PROCESS_RESPONSE)[1].err = NoErr

\* the same with a method that returns None
C5_WitnessNone ==
    /\ pc = "done"
    /\ Len(methods[PROCESS_RESPONSE]) = 2
    /\ Len(Calls(PROCESS_RESPONSE)) = 1
    /\ Calls(PROCESS_RESPONSE)[1].ret = None
    /\ Calls(PROCESS_RESPONSE)[1].err = NoErr

\* the chain of kind k is between its chain_start and its chain_complete
ChainRunning(k) ==
    CASE k = PROCESS_REQUEST ->
            pc \in {"process_request", "process_request_finally"}
      [] k = PROCESS_EXCEPTION ->
            pc \in {"process_exception", "process_exception_finally"}
      [] OTHER -> pc \in {"process_response", "process_response_finally"}

\* C6: every chain run, whatever its kind and however it ends, sends exactly
\* one chain_complete signal, whose middlewares_executed has as many names
\* (and whose middleware_count is as large) as method_complete signals were
\* sent during that run. A call runs each kind of chain at most once, so the
\* signals of a kind are those of its one run.
C6_TelemetryCompleteness ==
    \A k \in MethodNames :
        /\ Count("chain_start", k) <= 1
        /\ Count("chain_complete", k)
              = IF ChainRunning(k) THEN 0 ELSE Count("chain_start", k)
        /\ \A i \in EvPositions("chain_complete", k) :
              /\ Len(trace[i].names) = Count("method_complete", k)
              /\ trace[i].count = Count("method_complete", k)
              /\ \A j \in EvPositions("method_complete", k) : j < i
              /\ \A j \in EvPositions("chain_start", k) : j < i

C6_Witness ==
    /\ pc = "done"
    /\ \E i \in EvPositions("chain_complete", PROCESS_REQUEST) :
          trace[i].count = 2 /\ trace[i].err.cls = "Exception"
    /\ \E i \in EvPositions("chain_complete", PROCESS_EXCEPTION) :
          trace[i].count = 2 /\ trace[i].err = NoErr
    /\ \E i \in EvPositions("chain_complete", PROCESS_RESPONSE) :
          trace[i].count = 1 /\ trace[i].err.cls = "_InvalidOutput"

\* C7 as stated: every call of process_response, whatever it is handed,
\* sends one chain_complete signal of kind process_response before it exits.
C7_Original ==
    pc = "done" =>
        Count("chain_complete", PROCESS_RESPONSE)
            = Count("enter", PROCESS_RESPONSE)

\* C7 as amended: a call of process_response that is handed a Response sends
\* the chain_complete signal of kind process_response exactly once before
\* it exits, on a normal return, on the early return of a Request a method
\* produced and on a raised error alike; a call that is handed a Request or
\* None exits without sending it.
C7_ResponseChainRecord ==
    /\ Count("enter", PROCESS_RESPONSE) <= 1
    /\ \A i \in EvPositions("enter", PROCESS_RESPONSE) :
          IF trace[i].arg \in Responses
          THEN /\ ChainRunning(PROCESS_RESPONSE) =>
                     Count("chain_complete", PROCESS_RESPONSE) = 0
               /\ ~ChainRunning(PROCESS_RESPONSE) =>
                     /\ pc = "done"
                     /\ Count("chain_complete", PROCESS_RESPONSE) = 1
                     /\ \A j \in EvPositions("chain_complete", PROCESS_RESPONSE) :
                           j > i
          ELSE /\ pc = "done"
               /\ Count("chain_complete", PROCESS_RESPONSE) = 0

C7_Witness ==
    /\ pc = "done"
    /\ \E i \in EvPositions("enter", PROCESS_RESPONSE) :
          trace[i].arg \in Responses
    /\ outcome.status = "raised"
    /\ outcome.err.cls = "BaseException"
    /\ Len(Calls(PROCESS_RESPONSE)) = 2
    /\ Count("chain_complete", PROCESS_RESPONSE) = 1

\* the return values each kind of method may produce
Allowed(k) ==
    IF k = PROCESS_RESPONSE THEN Responses \cup Requests
    ELSE {None} \cup Responses \cup Requests

\* the error a call ends in: what the method raised, or the _InvalidOutput
\* for a return value outside the allowed set
Failure(e) ==
    IF e.err # NoErr THEN e.err
    ELSE IF e.ret \notin Allowed(e.meth) THEN InvalidOutput(e.mw, e.meth)
    ELSE NoErr

CallPositions == {i \in Positions : trace[i].ev = "call"}

\* C8: process_exception is run at most once per call, and only for an
\* error of the request chain or of download_func; an error raised by a
\* process_response or process_exception method, or the _InvalidOutput for
\* what one returned, leaves download_async with no process_exception
\* method called for it and, when it comes from process_exception, without
\* process_response being run.
C8_RecoveryOnce ==
    /\ Count("enter", PROCESS_EXCEPTION) <= 1
    /\ Count("sleep", "-") <= 1
    /\ \A j \in EvPositions("enter", PROCESS_EXCEPTION) :
          /\ \E i \in Positions :
                /\ i < j
                /\ trace[i].ev = "download_func"
                      \/ IsEv(i, "call", PROCESS_REQUEST)
                /\ Failure(trace[i]) = trace[j].exc
                /\ trace[j].exc # NoErr
          /\ \A i \in EvPositions("enter", PROCESS_RESPONSE) : i > j
    /\ \A i \in CallPositions :
          (trace[i].meth # PROCESS_REQUEST /\ Failure(trace[i]) # NoErr) =>
              /\ \A j \in EvPositions("call", PROCESS_EXCEPTION) : j <= i
              /\ \A j \in EvPositions("sleep", "-") : j < i
              /\ \A j \in EvPositions("enter", PROCESS_EXCEPTION) : j < i
              /\ pc = "done" => outcome = Raised(Failure(trace[i]))
              /\ trace[i].meth = PROCESS_EXCEPTION =>
                    Count("enter", PROCESS_RESPONSE) = 0

C8_Witness ==
    /\ pc = "done"
    /\ Len(methods[PROCESS_EXCEPTION]) >= 2
    /\ Count("enter", PROCESS_EXCEPTION) = 0
    /\ \E i \in EvPositions("call", PROCESS_RESPONSE) :
          trace[i].err.cls = "Exception"
    /\ outcome.status = "raised"

\* an error of a process_exception method, with process_response methods
\* registered
C8_WitnessException ==
    /\ pc = "done"
    /\ Len(methods[PROCESS_RESPONSE]) >= 1
    /\ Len(methods[PROCESS_EXCEPTION]) = 2
    /\ Len(Calls(PROCESS_EXCEPTION)) = 1
    /\ Calls(PROCESS_EXCEPTION)[1].ret = Other
    /\ outcome = Raised(InvalidOutput("B", PROCESS_EXCEPTION))

\* number of calls of kind k made up to position i of the trace
CallsUpTo(k, i) == Cardinality({j \in EvPositions("call", k) : j <= i})

\* C9: a process_request or process_exception method may return None, a
\* Response or a Request, and None lets the chain go on to its next method
\* (to download_func after the last process_request method); a
\* process_response method may return a Response or a Request only. A value
\* outside the allowed set fails the chain with _InvalidOutput at that
\* method: no later method of the chain is called and download_func is not
\* called.
C9_ReturnValidation ==
    \A i \in CallPositions :
        LET e == trace[i]
            k == trace[i].meth
            n == CallsUpTo(trace[i].meth, i)
        IN  e.err = NoErr =>
              /\ i + 1 \in Positions
              /\ trace[i + 1] =
                    MethodCompleteEv(k, e.mw,
                        IF e.ret \in Allowed(k) THEN NoErr
                        ELSE InvalidOutput(e.mw, k))
              /\ e.ret \notin Allowed(k) =>
                    /\ \A j \in EvPositions("call", k) : j <= i
                    /\ k = PROCESS_REQUEST => ~Fetched
                    /\ ~ChainRunning(k) \/ pending = Raises(InvalidOutput(e.mw, k))
                    /\ \A j \in EvPositions("chain_complete", k) :
                          trace[j].err = InvalidOutput(e.mw, k)
              /\ (e.ret = None /\ k # PROCESS_RESPONSE) =>
                    IF n < Len(methods[k])
                    THEN \/ pc = k /\ idx = n + 1
                         \/ \E j \in EvPositions("call", k) :
                               j > i /\ trace[j].mw = methods[k][n + 1]
                    ELSE k = PROCESS_REQUEST =>
                            \/ pc = k /\ idx = n + 1
                            \/ \E j \in Positions :
                                  j > i /\ trace[j].ev = "download_func"

C9_Witness ==
    /\ pc = "done"
    /\ Len(methods[PROCESS_REQUEST]) = 2
    /\ Len(Calls(PROCESS_REQUEST)) = 1
    /\ Calls(PROCESS_REQUEST)[1].ret = Other
    /\ Len(Calls(PROCESS_EXCEPTION)) = 2
    /\ Calls(PROCESS_EXCEPTION)[1].ret = None
    /\ Calls(PROCESS_EXCEPTION)[2].ret = Other

\* C10: when process_response is handed None, which is what download_func
\* returned after every process_request method returned None, it raises
\* the TypeError "Received None in process_response", no process_response
\* method is called, and the error leaves download_async without
\* process_exception being run.
C10_ReceivedNone ==
    /\ \A i \in EvPositions("enter", PROCESS_RESPONSE) :
          trace[i].arg = None =>
              /\ Count("call", PROCESS_RESPONSE) = 0
              /\ Count("chain_start", PROCESS_RESPONSE) = 0
              /\ pc = "done"
              /\ outcome = Raised(ReceivedNone)
              /\ Count("enter", PROCESS_EXCEPTION) = 0
              /\ Count("sleep", "-") = 0
              /\ \E j \in Positions :
                    /\ j < i
                    /\ trace[j].ev = "download_func"
                    /\ trace[j].ret = None
              /\ AllPassed(PROCESS_REQUEST)
              /\ CallNames(PROCESS_REQUEST) = methods[PROCESS_REQUEST]
    /\ \A j \in Positions :
          (trace[j].ev = "download_func" /\ trace[j].ret = None /\ pc = "done")
              => outcome = Raised(ReceivedNone)

C10_Witness ==
    /\ pc = "done"
    /\ outcome = Raised(ReceivedNone)
    /\ Len(Calls(PROCESS_REQUEST)) >= 2
    /\ Len(methods[PROCESS_RESPONSE]) >= 1
    /\ Len(methods[PROCESS_EXCEPTION]) >= 1

\* what the middleware methods and download_func of a call did, in order
Results(tr) ==
    LET done == SelectSeq(tr, LAMBDA e : e.ev \in {"call", "download_func"})
    IN  [i \in 1..Len(done) |-> <<done[i].ret, done[i].err>>]

\* C11: with two calls in flight, interleaved at their awaits, a call that
\* is not running is parked at one await (it has one method call, the fetch
\* or the sleep in progress, never two), and what a call has done, sent and
\* returned is a function of its own methods' and fetch's results: two
\* calls with the same results at the same position have the same locals,
\* the same signals and the same outcome, however they were interleaved.
C11_CallsIndependent ==
    /\ AtAwait(suspended) \/ suspended.pc \in {"init", "done"}
    /\ (suspended.pc = pc /\ Results(suspended.trace) = Results(trace))
          => suspended = Frame

C11_Witness ==
    /\ pc = "process_response"
    /\ suspended.pc = "process_response"
    /\ Len(Results(trace)) = 4
    /\ Results(suspended.trace) = Results(trace)
    /\ Count("chain_complete", PROCESS_EXCEPTION) = 1

\* what process_response was handed
ResponseChainInput ==
    LET e == SelectSeq(trace, LAMBDA x : x.ev = "enter"
                                         /\ x.meth = PROCESS_RESPONSE)
    IN  IF e = <<>> THEN "-" ELSE e[1].arg

\* C12: every process_response method is called with the request of the
\* download_async call and with the Response the method before it returned
\* (what process_response was handed, for the first); the first method
\* that returns a Request ends the chain with that Request; when all return
\* Responses the chain returns the Response of the last one.
C12_ResponseThreading ==
    LET c == Calls(PROCESS_RESPONSE) IN
      /\ \A n \in 1..Len(c) :
            /\ c[n].req = Req0
            /\ c[n].arg = IF n = 1 THEN ResponseChainInput ELSE c[n - 1].ret
            /\ c[n].arg \in Responses
            /\ c[n].mw = methods[PROCESS_RESPONSE][n]
            /\ (c[n].err = NoErr /\ c[n].ret \in Requests) =>
                  /\ n = Len(c)
                  /\ pc \in {"process_response_finally", "done"}
                  /\ pc = "process_response_finally" =>
                        pending = Returns(c[n].ret)
                  /\ pc = "done" => outcome = Returned(c[n].ret)
      /\ ( /\ pc = "done"
           /\ Count("chain_start", PROCESS_RESPONSE) = 1
           /\ AllPassed(PROCESS_RESPONSE) )
         => /\ Len(c) = Len(methods[PROCESS_RESPONSE])
            /\ outcome = Returned(IF c = <<>> THEN ResponseChainInput
                                  ELSE c[Len(c)].ret)

C12_Witness ==
    /\ pc = "done"
    /\ Len(Calls(PROCESS_RESPONSE)) = 2
    /\ Calls(PROCESS_RESPONSE)[1].arg = "Resp1"
    /\ Calls(PROCESS_RESPONSE)[1].ret = "Resp2"
    /\ Calls(PROCESS_RESPONSE)[2].arg = "Resp2"
    /\ Calls(PROCESS_RESPONSE)[2].ret = "Resp2"
    /\ outcome = Returned("Resp2")

\* a Request from the first of two methods
C12_WitnessRequest ==
    /\ pc = "done"
    /\ Len(methods[PROCESS_RESPONSE]) = 2
    /\ Len(Calls(PROCESS_RESPONSE)) = 1
    /\ outcome = Returned("Req1")

\* the names carried by the method_complete signals of kind k, in order
SignalledNames(k) ==
    LET sig == SelectSeq(trace, LAMBDA e : e.ev = "method_complete"
                                           /\ e.meth = k)
    IN  [i \in 1..Len(sig) |-> sig[i].mw]

\* C13: the method_complete signal of a call is sent right after the call,
\* carrying the error the call ended in, before that error goes anywhere;
\* in a chain run the method_complete signals come in call order and the
\* one chain_complete signal comes after them; for a failing method both
\* signals carry the same error; no method of a later chain is called
\* before the chain_complete signal of an earlier chain.
C13_SignalOrder ==
    /\ \A i \in CallPositions :
          /\ i + 1 \in Positions
          /\ trace[i + 1] = MethodCompleteEv(trace[i].meth, trace[i].mw,
                                             Failure(trace[i]))
          /\ Failure(trace[i]) # NoErr =>
                /\ \A j \in EvPositions("call", trace[i].meth) : j <= i
                /\ \A j \in EvPositions("chain_complete", trace[i].meth) :
                      j > i + 1 /\ trace[j].err = Failure(trace[i])
                /\ ~ChainRunning(trace[i].meth) =>
                      Count("chain_complete", trace[i].meth) = 1
          /\ \A k \in MethodNames :
                \A j \in EvPositions("chain_start", k) :
                    (j < i /\ k # trace[i].meth) =>
                        \E h \in EvPositions("chain_complete", k) : h < i
    /\ \A k \in MethodNames :
          /\ SignalledNames(k) = CallNames(k)
          /\ \A j \in EvPositions("chain_complete", k) :
                /\ \A i \in EvPositions("method_complete", k) : i < j
                /\ \A i \in EvPositions("call", k) : i < j

C13_Witness ==
    /\ pc = "done"
    /\ Len(Calls(PROCESS_REQUEST)) = 2
    /\ Calls(PROCESS_REQUEST)[2].err.cls = "Exception"
    /\ Len(Calls(PROCESS_EXCEPTION)) = 2
    /\ Calls(PROCESS_EXCEPTION)[2].err.cls = "BaseException"
    /\ Count("chain_complete", PROCESS_EXCEPTION) = 1

\* C14: the middlewares_executed list of a chain_complete signal is the
\* names of the methods called in that chain run, in call order: a prefix
\* of the stored method list of that kind, ending at the method that
\* short-circuited or failed when there is one, and the whole list
\* otherwise.
C14_ExecutedNames ==
    \A k \in MethodNames :
        \A j \in EvPositions("chain_complete", k) :
            /\ trace[j].names = CallNames(k)
            /\ trace[j].count = Len(CallNames(k))
            /\ IsPrefix(trace[j].names, methods[k])
            /\ AllPassed(k) => trace[j].names = methods[k]
            /\ \A i \in EvPositions("call", k) :
                  ~Passed(trace[i]) =>
                      /\ trace[j].names # <<>>
                      /\ trace[j].names[Len(trace[j].names)] = trace[i].mw

\* [A(process_request), B(process_request, process_response)], nothing
\* short-circuits, download_func returns a Response
C14_Witness ==
    /\ pc = "done"
    /\ mwlist = <<{PROCESS_REQUEST}, {PROCESS_REQUEST, PROCESS_RESPONSE}>>
    /\ outcome = Returned("Resp1")
    /\ \E j \in EvPositions("chain_complete", PROCESS_REQUEST) :
          trace[j].names = <<"A", "B">>
    /\ \E j \in EvPositions("chain_complete", PROCESS_RESPONSE) :
          trace[j].names = <<"B">>

\* a chain that a method leaves early
C14_WitnessShort ==
    /\ pc = "done"
    /\ Len(methods[PROCESS_EXCEPTION]) = 2
    /\ \E j \in EvPositions("chain_complete", PROCESS_EXCEPTION) :
          trace[j].names = <<"B">>

\* the errors the request chain ended in: raised by a process_request
\* method or by download_func, or the _InvalidOutput for a return value
RequestChainErrors ==
    {Failure(trace[i]) : i \in
        {j \in Positions :
            /\ trace[j].ev = "download_func" \/ IsEv(j, "call", PROCESS_REQUEST)
            /\ Failure(trace[j]) # NoErr}}

\* the sleep, when there is one, comes after the chain_complete signal of
\* the request chain and before process_exception and its methods
SleepInPlace ==
    \A s \in EvPositions("sleep", "-") :
        /\ \E j \in EvPositions("chain_complete", PROCESS_REQUEST) : j < s
        /\ \A j \in EvPositions("enter", PROCESS_EXCEPTION) : j > s
        /\ \A j \in EvPositions("call", PROCESS_EXCEPTION) : j > s

\* C15 as stated: download_async sleeps exactly once in a call whose
\* request chain or download_func raised, after the chain_complete signal
\* of the request chain and before the first process_exception method; in a
\* call whose request chain did not raise it does not sleep and does not
\* run process_exception.
C15_Original ==
    /\ SleepInPlace
    /\ pc = "done" =>
          /\ Count("sleep", "-") = IF RequestChainErrors # {} THEN 1 ELSE 0
          /\ RequestChainErrors = {} => Count("enter", PROCESS_EXCEPTION) = 0

\* C15 as amended: download_async sleeps exactly once in a call whose
\* request chain or download_func raised an Exception, after the
\* chain_complete signal of the request chain and before the first
\* process_exception method; in a call whose request chain did not raise,
\* or raised a BaseException that is not an Exception, it does not sleep
\* and does not run process_exception.
C15_SleepOnce ==
    LET caught == {e \in RequestChainErrors :
                      e.cls \in {"Exception", "_InvalidOutput"}}
    IN  /\ SleepInPlace
        /\ Count("sleep", "-")
              = IF caught # {} /\ pc \notin {"process_request_finally", "sleep"}
                THEN 1 ELSE 0
        /\ Count("enter", PROCESS_EXCEPTION) = Count("sleep", "-")
        /\ (pc = "done" /\ caught = {}) =>
              /\ Count("call", PROCESS_EXCEPTION) = 0
              /\ \A e \in RequestChainErrors : outcome = Raised(e)

C15_Witness ==
    /\ pc = "done"
    /\ Count("sleep", "-") = 1
    /\ \E i \in Positions :
          trace[i].ev = "download_func" /\ trace[i].err.cls = "Exception"
    /\ Len(Calls(PROCESS_EXCEPTION)) = 2

\* a BaseException from download_func, with process_exception methods
\* registered
C15_WitnessNotCaught ==
    /\ pc = "done"
    /\ Count("sleep", "-") = 0
    /\ \E i \in Positions :
          trace[i].ev = "download_func" /\ trace[i].err.cls = "BaseException"
    /\ Len(methods[PROCESS_EXCEPTION]) = 2

\* C16: the _InvalidOutput raised in the request chain is handed to
\* process_exception like any other failure of that chain: a
\* process_exception method can turn it into a Response, which then goes
\* through process_response, or into a Request, which is the result; it
\* reaches the caller only when no process_exception method resolves it.
C16_InvalidOutputRecovered ==
    \A i \in EvPositions("call", PROCESS_REQUEST) :
        (trace[i].err = NoErr /\ trace[i].ret \notin Allowed(PROCESS_REQUEST)) =>
            LET e == InvalidOutput(trace[i].mw, PROCESS_REQUEST)
                resolved == {j \in EvPositions("call", PROCESS_EXCEPTION) :
                               /\ trace[j].err = NoErr
                               /\ trace[j].ret \in Responses \cup Requests}
            IN  /\ pc \notin {"process_request", "process_request_finally",
                              "sleep"} =>
                      /\ Count("enter", PROCESS_EXCEPTION) = 1
                      /\ \A j \in EvPositions("enter", PROCESS_EXCEPTION) :
                            j > i /\ trace[j].exc = e
                /\ \A j \in EvPositions("call", PROCESS_EXCEPTION) :
                      /\ trace[j].exc = e
                      /\ trace[j].req = Req0
                /\ \A j \in resolved :
                      pc = "done" =>
                          IF trace[j].ret \in Responses
                          THEN RanProcessResponseOn(trace[j].ret, j)
                          ELSE outcome = Returned(trace[j].ret)
                /\ pc = "done" =>
                      (outcome = Raised(e)) =
                          ( /\ CallNames(PROCESS_EXCEPTION)
                                 = methods[PROCESS_EXCEPTION]
                            /\ AllPassed(PROCESS_EXCEPTION) )

C16_Witness ==
    /\ pc = "done"
    /\ \E i \in EvPositions("call", PROCESS_REQUEST) : trace[i].ret = Other
    /\ Len(Calls(PROCESS_EXCEPTION)) = 2
    /\ Calls(PROCESS_EXCEPTION)[2].ret = "Resp1"
    /\ Len(Calls(PROCESS_RESPONSE)) >= 1
    /\ outcome.status = "returned"

\* the _InvalidOutput that nothing resolves
C16_WitnessUnresolved ==
    /\ pc = "done"
    /\ Len(Calls(PROCESS_EXCEPTION)) = 2
    /\ outcome = Raised(InvalidOutput("A", PROCESS_REQUEST))

\* positions where a method or download_func returned v
Producers(v) ==
    {i \in Positions :
        /\ trace[i].ev \in {"call", "download_func"}
        /\ trace[i].err = NoErr
        /\ trace[i].ret = v}

\* C17: a download_async call that is over has returned a Response or a
\* Request, or raised: it never returns None. A Response it returns has
\* gone through the whole response chain; a Request it returns was either
\* returned by a process_response method, which ended the chain, or went
\* through no process_response method at all.
C17_Outcome ==
    /\ pc = "done" =>
          /\ outcome.status \in {"returned", "raised"}
          /\ outcome.status = "raised" =>
                outcome.err # NoErr /\ outcome.val = "-"
          /\ outcome.status = "returned" =>
                /\ outcome.val \in Responses \cup Requests
                /\ outcome.val # None
                /\ Producers(outcome.val) # {}
    /\ (pc = "done" /\ outcome.status = "returned"
          /\ outcome.val \in Responses) =>
          LET c == Calls(PROCESS_RESPONSE) IN
            /\ Count("chain_start", PROCESS_RESPONSE) = 1
            /\ CallNames(PROCESS_RESPONSE) = methods[PROCESS_RESPONSE]
            /\ AllPassed(PROCESS_RESPONSE)
            /\ outcome.val = IF c = <<>> THEN ResponseChainInput
                              ELSE c[Len(c)].ret
    /\ (pc = "done" /\ outcome.status = "returned"
          /\ outcome.val \in Requests) =>
          LET c == Calls(PROCESS_RESPONSE) IN
            IF c = <<>>
            THEN ResponseChainInput = outcome.val
            ELSE /\ c[Len(c)].ret = outcome.val
                 /\ \A n \in 1..(Len(c) - 1) : c[n].ret \in Responses

C17_Witness ==
    /\ pc = "done"
    /\ outcome = Returned("Req1")
    /\ Len(Calls(PROCESS_RESPONSE)) = 2
    /\ Len(Calls(PROCESS_EXCEPTION)) = 2

\* a Response that came from download_func
C17_WitnessResponse ==
    /\ pc = "done"
    /\ outcome = Returned("Resp2")
    /\ Fetched
    /\ Len(Calls(PROCESS_RESPONSE)) = 2

\* the exception process_exception was called with
ExceptionChainInput ==
    LET e == SelectSeq(trace, LAMBDA x : x.ev = "enter"
                                         /\ x.meth = PROCESS_EXCEPTION)
    IN  IF e = <<>> THEN NoErr ELSE e[1].exc

\* the error the chain of kind k leaves with, NoErr when it returns: read
\* off what its methods and download_func did
ExitError(k) ==
    LET c == Calls(k)
        failed == c # <<>> /\ Failure(c[Len(c)]) # NoErr
        fetches == SelectSeq(trace, LAMBDA x : x.ev = "download_func")
    IN  IF failed THEN Failure(c[Len(c)])
        ELSE IF k = PROCESS_REQUEST
        THEN (IF fetches = <<>> THEN NoErr ELSE fetches[1].err)
        ELSE IF k = PROCESS_EXCEPTION
        THEN (IF AllPassed(k) THEN ExceptionChainInput ELSE NoErr)
        ELSE NoErr

\* C18: the error of a chain_complete signal is set exactly when the chain
\* run exits by raising, and is the error that leaves the chain: for the
\* request chain also the error of download_func, with no error in any
\* method_complete signal of the run; for a process_exception chain that
\* nothing resolves, the exception it was called with, though no
\* process_exception method raised.
C18_ChainError ==
    \A k \in MethodNames :
        \A j \in EvPositions("chain_complete", k) :
            /\ trace[j].err = ExitError(k)
            /\ trace[j].err # NoErr =>
                  \/ pc = "sleep" /\ exception = trace[j].err
                  \/ \E h \in EvPositions("enter", PROCESS_EXCEPTION) :
                        /\ h > j
                        /\ k = PROCESS_REQUEST
                        /\ trace[h].exc = trace[j].err
                  \/ pc = "done" /\ outcome = Raised(trace[j].err)
            /\ trace[j].err = NoErr =>
                  \/ pc = "call_process_response" /\ k # PROCESS_RESPONSE
                  \/ \E h \in EvPositions("enter", PROCESS_RESPONSE) :
                        h > j /\ k # PROCESS_RESPONSE
                  \/ pc = "done" /\ outcome.status = "returned"
                       /\ k = PROCESS_RESPONSE
            /\ ( /\ k = PROCESS_REQUEST
                 /\ \E h \in Positions : /\ trace[h].ev = "download_func"
                                          /\ trace[h].err # NoErr )
               => \A h \in EvPositions("method_complete", k) :
                     trace[h].err = NoErr
            /\ (k = PROCESS_EXCEPTION /\ AllPassed(k)) =>
                  /\ trace[j].err = ExceptionChainInput
                  /\ trace[j].err # NoErr
                  /\ \A h \in EvPositions("method_complete", k) :
                        trace[h].err = NoErr

C18_Witness ==
    /\ pc = "done"
    /\ Len(Calls(PROCESS_REQUEST)) = 2
    /\ \E j \in EvPositions("chain_complete", PROCESS_REQUEST) :
          trace[j].err = Err("Exception", "download_func", "-")
    /\ Len(Calls(PROCESS_EXCEPTION)) = 2
    /\ \E j \in EvPositions("chain_complete", PROCESS_EXCEPTION) :
          trace[j].err = Err("Exception", "download_func", "-")

\* download_func is called at most once, and was called exactly when every
\* process_request method returned None; no method is called twice
CalledAtMostOnce ==
    /\ Count("download_func", "-") <= 1
    /\ pc \notin {"init", "process_request"} =>
          (Count("download_func", "-") = 1)
              = ( /\ CallNames(PROCESS_REQUEST) = methods[PROCESS_REQUEST]
                  /\ AllPassed(PROCESS_REQUEST) )
    /\ \A k \in MethodNames :
          /\ Len(Calls(k)) <= Len(methods[k])
          /\ \A i, j \in EvPositions("call", k) :
                trace[i].mw = trace[j].mw => i = j

\* C19: when every method call, download_func and the sleep return, the
\* download_async call ends, returning or raising; in one call
\* download_func is called at most once, exactly once when every
\* process_request method returned None, and no middleware method is
\* called twice.
C19_TerminatesOnce ==
    /\ <>(pc = "done" /\ outcome.status \in {"returned", "raised"})
    /\ []CalledAtMostOnce

C19_Witness ==
    /\ pc = "done"
    /\ Count("download_func", "-") = 1
    /\ Len(Calls(PROCESS_REQUEST)) = 2
    /\ Len(Calls(PROCESS_EXCEPTION)) = 2
    /\ Len(Calls(PROCESS_RESPONSE)) = 2

\* the BaseException, not an Exception, that a process_request method or
\* download_func raised
NotCaught == {e \in RequestChainErrors : e.cls = "BaseException"}

\* C20: `except Exception` recovers Exceptions only. When a process_request
\* method or download_func raises a BaseException that is not an Exception,
\* download_async does not sleep and runs neither process_exception nor
\* process_response; the BaseException is raised to the caller; the
\* method_complete signal of the method that raised it and the
\* chain_complete signal of the request chain are sent with it as error.
C20_BaseExceptionPropagates ==
    \A e \in NotCaught :
        /\ pc \in {"process_request_finally", "done"}
        /\ Count("sleep", "-") = 0
        /\ \A k \in {PROCESS_EXCEPTION, PROCESS_RESPONSE} :
              Count("enter", k) = 0 /\ Count("call", k) = 0
        /\ e.mw # "download_func" =>
              \E i \in EvPositions("call", PROCESS_REQUEST) :
                  /\ trace[i].mw = e.mw
                  /\ i < Len(trace)
                  /\ trace[i + 1] = MethodCompleteEv(PROCESS_REQUEST, e.mw, e)
        /\ pc = "done" =>
              /\ outcome = Raised(e)
              /\ trace[Len(trace)]
                    = ChainCompleteEv(PROCESS_REQUEST, request,
                                      CallNames(PROCESS_REQUEST), e)

\* a BaseException raised by the second process_request method, with
\* process_exception and process_response methods registered
C20_Witness ==
    /\ pc = "done"
    /\ Len(Calls(PROCESS_REQUEST)) = 2
    /\ \E e \in NotCaught : e.mw # "download_func"
    /\ Len(methods[PROCESS_EXCEPTION]) = 2
    /\ Len(methods[PROCESS_RESPONSE]) = 2

\* a BaseException raised by download_func
C20_WitnessFetch ==
    /\ pc = "done"
    /\ Len(Calls(PROCESS_REQUEST)) = 2
    /\ \E e \in NotCaught : e.mw = "download_func"
    /\ Len(methods[PROCESS_EXCEPTION]) = 2

TypeOK ==
    /\ pc \in {"init", "process_request", "process_request_finally", "sleep",
               "process_exception", "process_exception_finally",
               "call_process_response", "process_response",
               "process_response_finally", "done"}
    /\ nadded \in 0..NumMw
    /\ outcome.status \in {"running", "returned", "raised"}
    /\ (pc = "done") = (outcome.status # "running")

====
